---- MODULE Spec2Model ----
(***************************************************************************)
(* Analytics & Gamification Engine of VoiceNotebook-QA.                    *)
(*                                                                         *)
(*   Collector    AnalyticsCollectionService                               *)
(*                (src/src/services/AnalyticsCalculationService.ts:506-964)*)
(*   Aggregator   AnalyticsService (src/src/services/AnalyticsService.ts)  *)
(*   Event Store  AnalyticsStorageService (src/unnamed/part_010)           *)
(*   Gamification GamificationService                                      *)
(*                (src/src/services/FileProcessingService.ts:233-897)      *)
(*                                                                         *)
(* Every asynchronous method is a process whose steps are the stretches of *)
(* code between two awaited store operations (IndexedDB requests).  A      *)
(* store operation may fail; what the failure does is what the enclosing   *)
(* try/catch of the source does with it.                                   *)
(***************************************************************************)
EXTENDS Integers, Sequences, FiniteSets, TLC

VARIABLES
  activityBuffer,  \* Collector: activityBuffer
  flushes,         \* Collector: the flushActivityBuffer() invocations in flight
  isActive,        \* Collector: isActive
  tracked,         \* history: type of the n-th event handed to bufferEvent
  handed,          \* history: ids whose analyticsService.trackEvent call returned
  initialized,     \* AnalyticsService: initialized
  snapshot,        \* store: analytics record 'user_analytics_current' (<<>> = none)
  events,          \* store: events table, in insertion order
  dailyUsage,      \* store: analytics record 'daily_usage_<today>' (<<>> = none)
  goals,           \* store: goals table
  insights,        \* store: ids of the insights table rows of category 'Achievements'
  userXP,          \* GamificationService: userXP
  userLevel,       \* GamificationService: userLevel
  calls,           \* updateGoalProgress() / checkAchievements() invocations in flight
  recomputes,      \* AnalyticsService.updateUserAnalytics() invocations in flight or ended
  starts,          \* history: number of service invocations started
  failures,        \* history: number of store operations that have failed
  flushInterval,   \* Collector: the 30 s timer, "set" or "cleared"
  sessionEnd,      \* Collector: the handleSessionEnd invocation
  destroyed,       \* Collector: destroy() has been called
  argument,        \* the argument of the calculation being applied (<<>> = none)
  result           \* what the calculations applied so far have returned

collectorVars == <<activityBuffer, flushes, isActive, tracked, handed>>
storeVars     == <<snapshot, events, dailyUsage, goals, insights>>
gamVars       == <<userXP, userLevel, calls>>
sessionVars   == <<flushInterval, sessionEnd, destroyed>>
fnVars        == <<argument, result>>
vars == <<activityBuffer, flushes, isActive, tracked, handed, initialized,
          snapshot, events, dailyUsage, goals, insights, userXP, userLevel,
          calls, recomputes, starts, failures, flushInterval, sessionEnd,
          destroyed, argument, result>>

-----------------------------------------------------------------------------
(* Bounds *)

MaxEvents  == 2     \* events tracked through the Collector in one behaviour
MaxFlushes == 2     \* flushActivityBuffer() invocations that may overlap
MaxGoals   == 1     \* goals in the store
MaxCalls   == 2     \* Gamification / goal-progress invocations that may overlap
MaxValue   == 1     \* largest goal target and progress value
MaxRecomputes == 2  \* updateUserAnalytics() invocations that may overlap
MaxStarts  == 2     \* service invocations started in one behaviour
MaxFailures == 2    \* store operations that fail in one behaviour
MaxBurst   == 11    \* events tracked in one burst of search tracking

(* Program constants *)

FlushThreshold == 10

-----------------------------------------------------------------------------
(* Sequences *)

RECURSIVE SumSeq(_)
SumSeq(s) == IF s = <<>> THEN 0 ELSE Head(s) + SumSeq(Tail(s))

Max2(a, b) == IF a >= b THEN a ELSE b

-----------------------------------------------------------------------------
(* Store failures: a store operation succeeds (ok) or fails; a behaviour has
   at most MaxFailures failing operations *)

Inject(ok) ==
  /\ ok \/ failures < MaxFailures
  /\ failures' = failures + (IF ok THEN 0 ELSE 1)

\* trackEvent: the add, and after a successful add the write of today's row
Inject2(addOk, rowOk) ==
  /\ addOk \/ rowOk
  /\ (addOk /\ rowOk) \/ failures < MaxFailures
  /\ failures' = failures + (IF addOk /\ rowOk THEN 0 ELSE 1)

\* one store operation fails `cost` times
InjectCost(cost) ==
  /\ failures + cost <= MaxFailures
  /\ failures' = failures + cost

-----------------------------------------------------------------------------
(* Event Store: daily usage rows *)

createEmptyDailyUsage ==
  [recordingMinutes |-> 0, documentsProcessed |-> 0, searchCount |-> 0,
   timeSpent |-> 0, sessionsCount |-> 1, itemsCreated |-> 0,
   itemsDeleted |-> 0, productivityScore |-> 0]

\* the switch of updateRealTimeMetrics, applied to the row it has read
ApplyEventToRow(row, ev) ==
  CASE ev.type = "voice_recording_completed" ->
         [row EXCEPT !.recordingMinutes = @ + ev.duration,
                     !.itemsCreated = @ + 1]
    [] ev.type = "file_upload_completed" ->
         [row EXCEPT !.documentsProcessed = @ + 1, !.itemsCreated = @ + 1]
    [] ev.type = "search_performed" -> [row EXCEPT !.searchCount = @ + 1]
    [] ev.type = "item_deleted" -> [row EXCEPT !.itemsDeleted = @ + 1]
    [] OTHER -> row

\* getDailyUsage(today) || createEmptyDailyUsage(today); a failed read is
\* caught inside getDailyUsage and yields null
ReadTodayUsage(ok) ==
  IF ok /\ dailyUsage # <<>> THEN dailyUsage[1] ELSE createEmptyDailyUsage

\* storage.trackEvent run to completion in one step, for callers whose own
\* interleaving with the row is not modelled: a failed add is swallowed and
\* skips updateRealTimeMetrics; a failed row write is swallowed too
StoreTrackEvent(ev, addOk, rowOk) ==
  IF addOk
  THEN /\ events' = Append(events, ev)
       /\ dailyUsage' = IF rowOk
                        THEN <<ApplyEventToRow(ReadTodayUsage(TRUE), ev)>>
                        ELSE dailyUsage
  ELSE UNCHANGED <<events, dailyUsage>>

-----------------------------------------------------------------------------
(* Aggregator: lazy initialization *)

InitialAnalytics ==
  [totalItems |-> 0, voiceRecordings |-> 0, documentsUploaded |-> 0,
   searchesPerformed |-> 0, dailyUsage |-> <<>>, level |-> 1, xp |-> 0]

\* ensureInitialized() run to completion: the outcomes initialize() can have.
\* getUserAnalytics swallows a read error and returns null, and then
\* createInitialAnalytics overwrites; a failed saveUserAnalytics throws.
EnsureInitializedOutcomes ==
  IF initialized
  THEN {[initialized |-> TRUE, snapshot |-> snapshot, threw |-> FALSE,
         cost |-> 0]}
  ELSE (IF snapshot # <<>>
        THEN {[initialized |-> TRUE, snapshot |-> snapshot, threw |-> FALSE,
               cost |-> 0]}
        ELSE {})
       \cup {[initialized |-> TRUE, snapshot |-> <<InitialAnalytics>>,
              threw |-> FALSE, cost |-> IF snapshot # <<>> THEN 1 ELSE 0],
             [initialized |-> FALSE, snapshot |-> snapshot, threw |-> TRUE,
              cost |-> IF snapshot # <<>> THEN 2 ELSE 1]}

-----------------------------------------------------------------------------
(* Collector *)

IdleFlush == [pc |-> "idle", batch |-> <<>>, i |-> 0,
              row |-> createEmptyDailyUsage]

FreeSlots == {k \in 1..MaxFlushes : flushes[k].pc = "idle"}

\* where analyticsService.trackEvent first waits on the store
TrackEventEntry(init) == IF init THEN "add" ELSE "initRead"

\* a flush that copied the buffer and left the events in it
BufferAfterSwapKept(buf) == buf
\* this.activityBuffer after line 840
BufferAfterSwap(buf) == <<>>

\* this.activityBuffer after line 850
Requeue(batch, buf) == batch \o buf

\* flushActivityBuffer() up to its first wait, in slot k
StartFlush(k, buf) ==
  /\ flushes' = [flushes EXCEPT ![k] =
       [pc |-> TrackEventEntry(initialized), batch |-> buf, i |-> 1,
        row |-> createEmptyDailyUsage]]
  /\ activityBuffer' = BufferAfterSwap(buf)

\* a bufferEvent that pushes and never flushes
BufferEventNoFlush(type, duration) ==
  /\ tracked' = Append(tracked, type)
  /\ activityBuffer' = Append(activityBuffer,
        [id |-> Len(tracked) + 1, type |-> type, duration |-> duration])
  /\ UNCHANGED flushes

\* bufferEvent(type, data): push, then flush when the buffer has 10 entries
BufferEvent(type, duration) ==
  LET ev  == [id |-> Len(tracked) + 1, type |-> type, duration |-> duration]
      buf == Append(activityBuffer, ev)
  IN /\ tracked' = Append(tracked, type)
     /\ IF Len(buf) >= FlushThreshold
        THEN \E k \in FreeSlots : StartFlush(k, buf)
        ELSE /\ activityBuffer' = buf
             /\ UNCHANGED flushes

\* trackSearchStart, trackContentDelete, trackContentView, ...: bufferEvent only
TrackBuffered(type, duration) ==
  /\ BufferEvent(type, duration)
  /\ UNCHANGED <<isActive, handed, initialized, storeVars, gamVars, recomputes, starts>>
  /\ UNCHANGED failures
  /\ UNCHANGED <<sessionVars, fnVars>>

\* trackVoiceRecordingComplete / trackFileUploadComplete: bufferEvent, then
\* updateProductivityMetrics (lines 723-759).  That method changes a copy of
\* today's row taken from the snapshot and hands it to
\* analyticsService.updateUserAnalytics in place of a ContentItem[]; the call
\* throws at AnalyticsService.ts:73 (contentItems.filter) before line 112
\* saves anything, and the catch at line 756 swallows the error.  Its only
\* effect on stored state is the lazy initialization done by getUserAnalytics.
TrackCompleted(type, duration) ==
  /\ BufferEvent(type, duration)
  /\ \E o \in EnsureInitializedOutcomes :
        /\ InjectCost(o.cost)
        /\ initialized' = o.initialized
        /\ snapshot' = o.snapshot
  /\ UNCHANGED <<isActive, handed, events, dailyUsage, goals, insights,
                 gamVars, recomputes, starts>>
  /\ UNCHANGED <<sessionVars, fnVars>>

\* the setInterval callback of initializeCollection, and any other caller of
\* flushActivityBuffer
FlushActivityBuffer ==
  /\ activityBuffer # <<>>
  /\ \E k \in FreeSlots : StartFlush(k, activityBuffer)

TimerTick ==
  /\ flushInterval = "set"
  /\ FlushActivityBuffer
  /\ UNCHANGED <<isActive, tracked, handed, initialized, storeVars, gamVars,
                 recomputes, starts>>
  /\ UNCHANGED failures
  /\ UNCHANGED <<sessionVars, fnVars>>

handleSessionPause ==
  /\ isActive
  /\ isActive' = FALSE
  /\ IF activityBuffer = <<>>
     THEN UNCHANGED <<activityBuffer, flushes>>
     ELSE FlushActivityBuffer
  /\ UNCHANGED <<tracked, handed, initialized, storeVars, gamVars, recomputes, starts>>
  /\ UNCHANGED failures
  /\ UNCHANGED <<sessionVars, fnVars>>

handleSessionResume ==
  /\ ~isActive
  /\ isActive' = TRUE
  /\ UNCHANGED <<activityBuffer, flushes, tracked, handed, initialized,
                 storeVars, gamVars, recomputes, starts>>
  /\ UNCHANGED failures
  /\ UNCHANGED <<sessionVars, fnVars>>

\* the handleSessionEnd invocation: not started ("idle"), waiting for the
\* flush in slot k that bufferEvent started ("bufFlush") or that its own call
\* of flushActivityBuffer started ("flush"), about to call flushActivityBuffer
\* after bufferEvent's flush ("again"), or returned ("done")
IdleSessionEnd == [pc |-> "idle", k |-> 0]

\* the session duration handed to bufferEvent, in minutes
SessionDuration == 1

\* handleSessionEnd (the beforeunload listener): bufferEvent('session_ended'),
\* await flushActivityBuffer(), clearInterval.  The first step runs up to the
\* first wait on the store; the step from "again" is the call of
\* flushActivityBuffer that follows a threshold flush of bufferEvent.
handleSessionEnd ==
  /\ IF sessionEnd.pc = "idle"
     THEN LET ev  == [id |-> Len(tracked) + 1, type |-> "session_ended",
                      duration |-> SessionDuration]
              buf == Append(activityBuffer, ev)
          IN /\ tracked' = Append(tracked, "session_ended")
             /\ \E k \in FreeSlots :
                  /\ StartFlush(k, buf)
                  /\ sessionEnd' =
                       [pc |-> IF Len(buf) >= FlushThreshold THEN "bufFlush"
                               ELSE "flush",
                        k |-> k]
     ELSE /\ sessionEnd.pc = "again"
          /\ \E k \in FreeSlots :
               /\ StartFlush(k, activityBuffer)
               /\ sessionEnd' = [pc |-> "flush", k |-> k]
          /\ UNCHANGED tracked
  /\ UNCHANGED <<isActive, handed, initialized, storeVars, gamVars, recomputes,
                 starts, failures, flushInterval, destroyed, fnVars>>

\* what handleSessionEnd does when the flush it awaits (slot k) returns: a
\* second flushActivityBuffer if bufferEvent's flush left events behind,
\* otherwise clearInterval(this.flushInterval) and return
SessionEndContinues(k) ==
  IF sessionEnd.pc \in {"flush", "bufFlush"} /\ sessionEnd.k = k
     /\ flushes'[k].pc = "idle"
  THEN IF sessionEnd.pc = "bufFlush" /\ activityBuffer' # <<>>
       THEN /\ sessionEnd' = [pc |-> "again", k |-> 0]
            /\ UNCHANGED flushInterval
       ELSE /\ sessionEnd' = [pc |-> "done", k |-> 0]
            /\ flushInterval' = "cleared"
  ELSE UNCHANGED <<flushInterval, sessionEnd>>

\* a destroy() that leaves the timer running
destroyKeepsTimer ==
  /\ ~destroyed
  /\ destroyed' = TRUE
  /\ IF activityBuffer = <<>>
     THEN UNCHANGED <<activityBuffer, flushes>>
     ELSE FlushActivityBuffer
  /\ UNCHANGED <<isActive, tracked, handed, initialized, storeVars, gamVars,
                 recomputes, starts, failures, sessionEnd, flushInterval,
                 fnVars>>

\* destroy(): clearInterval, then flushActivityBuffer() without awaiting it
destroy ==
  /\ ~destroyed
  /\ destroyed' = TRUE
  /\ flushInterval' = "cleared"
  /\ IF activityBuffer = <<>>
     THEN UNCHANGED <<activityBuffer, flushes>>
     ELSE FlushActivityBuffer
  /\ UNCHANGED <<isActive, tracked, handed, initialized, storeVars, gamVars,
                 recomputes, starts, failures, sessionEnd, fnVars>>

\* the flush in slot k goes on to its next event, or returns
FlushAdvance(k) ==
  LET f == flushes[k]
  IN IF f.i < Len(f.batch)
     THEN [f EXCEPT !.pc = TrackEventEntry(TRUE), !.i = f.i + 1]
     ELSE IdleFlush

\* initialize(): await storageService.getUserAnalytics()
FlushInitRead(k) ==
  /\ flushes[k].pc = "initRead"
  /\ \E ok \in BOOLEAN :
       /\ Inject(ok)
       /\ LET existing == IF ok THEN snapshot ELSE <<>>
          IN IF existing # <<>>
             THEN /\ initialized' = TRUE
                  /\ flushes' = [flushes EXCEPT ![k].pc = "add"]
             ELSE /\ flushes' = [flushes EXCEPT ![k].pc = "initSave"]
                  /\ UNCHANGED initialized
  /\ UNCHANGED <<activityBuffer, isActive, tracked, handed, storeVars,
                 gamVars, recomputes, starts>>
  /\ SessionEndContinues(k)
  /\ UNCHANGED <<destroyed, fnVars>>

\* createInitialAnalytics(): await saveUserAnalytics(initialAnalytics); a
\* failure propagates out of trackEvent into the catch of flushActivityBuffer
FlushInitSave(k) ==
  /\ flushes[k].pc = "initSave"
  /\ \E ok \in BOOLEAN :
       /\ Inject(ok)
       /\ IF ok
          THEN /\ snapshot' = <<InitialAnalytics>>
               /\ initialized' = TRUE
               /\ flushes' = [flushes EXCEPT ![k].pc = "add"]
               /\ UNCHANGED activityBuffer
          ELSE /\ activityBuffer' = Requeue(flushes[k].batch, activityBuffer)
               /\ flushes' = [flushes EXCEPT ![k] = IdleFlush]
               /\ UNCHANGED <<snapshot, initialized>>
  /\ UNCHANGED <<isActive, tracked, handed, events, dailyUsage, goals,
                 insights, gamVars, recomputes, starts>>
  /\ SessionEndContinues(k)
  /\ UNCHANGED <<destroyed, fnVars>>

\* storage.trackEvent: await this.db.events.add(event); an error is caught
\* at part_010:177 and trackEvent returns normally
FlushAdd(k) ==
  /\ flushes[k].pc = "add"
  /\ LET f == flushes[k]
         ev == f.batch[f.i]
     IN \E ok \in BOOLEAN :
          /\ Inject(ok)
          /\ IF ok
             THEN /\ events' = Append(events,
                        [type |-> ev.type, src |-> ev.id, duration |-> ev.duration,
                         goalId |-> 0, ach |-> ""])
                  /\ flushes' = [flushes EXCEPT ![k].pc = "rowRead"]
                  /\ UNCHANGED handed
             ELSE /\ flushes' = [flushes EXCEPT ![k] = FlushAdvance(k)]
                  /\ handed' = handed \cup {ev.id}
                  /\ UNCHANGED events
  /\ UNCHANGED <<activityBuffer, isActive, tracked, initialized, snapshot,
                 dailyUsage, goals, insights, gamVars, recomputes, starts>>
  /\ SessionEndContinues(k)
  /\ UNCHANGED <<destroyed, fnVars>>

\* updateRealTimeMetrics: await this.getDailyUsage(today), then the switch
FlushRowRead(k) ==
  /\ flushes[k].pc = "rowRead"
  /\ LET f == flushes[k]
     IN \E ok \in BOOLEAN :
          /\ Inject(ok)
          /\ flushes' = [flushes EXCEPT
                ![k].pc = "rowWrite",
                ![k].row = ApplyEventToRow(ReadTodayUsage(ok), f.batch[f.i])]
  /\ UNCHANGED <<activityBuffer, isActive, tracked, handed, initialized,
                 storeVars, gamVars, recomputes, starts>>
  /\ SessionEndContinues(k)
  /\ UNCHANGED <<destroyed, fnVars>>

\* updateRealTimeMetrics: await this.saveDailyUsage(today, todayUsage); an
\* error is caught at part_010:361
FlushRowWrite(k) ==
  /\ flushes[k].pc = "rowWrite"
  /\ LET f == flushes[k]
     IN /\ \E ok \in BOOLEAN :
             /\ Inject(ok)
             /\ dailyUsage' = IF ok THEN <<f.row>> ELSE dailyUsage
        /\ handed' = handed \cup {f.batch[f.i].id}
        /\ flushes' = [flushes EXCEPT ![k] = FlushAdvance(k)]
  /\ UNCHANGED <<activityBuffer, isActive, tracked, initialized, snapshot,
                 events, goals, insights, gamVars, recomputes, starts>>
  /\ SessionEndContinues(k)
  /\ UNCHANGED <<destroyed, fnVars>>

-----------------------------------------------------------------------------
(* Goals and XP *)

GoalIds == 1..MaxGoals

NoGoal == [status |-> "none", type |-> "", target |-> 0, current |-> 0,
           priority |-> "low", createdAs |-> "none"]

\* an event written to the store by a service other than the Collector
ServiceEvent(type, goalId, ach) ==
  [type |-> type, src |-> 0, duration |-> 0, goalId |-> goalId, ach |-> ach]

IdleCall ==
  [op |-> "none", pc |-> "idle", goalId |-> 0, value |-> 0,
   wasCompleted |-> FALSE, completing |-> FALSE, xp |-> 0, ach |-> "",
   xpRet |-> "", obj |-> InitialAnalytics, existing |-> {}, idx |-> 0,
   input |-> 0]

\* an invocation starts in the first free slot (the slots are interchangeable)
FreeCall(c) ==
  /\ calls[c].pc = "idle"
  /\ \A d \in 1..MaxCalls : d < c => calls[d].pc # "idle"

\* Math.round(n / d) for n, d > 0
RoundDiv(n, d) == (2 * n + d) \div (2 * d)

\* calculateGoalXP: Math.round(100 * Math.max(1, target / 10) * multiplier),
\* with the quotient and the multiplier kept in tenths
PriorityMultiplier10(priority) ==
  IF priority = "high" THEN 15 ELSE IF priority = "medium" THEN 12 ELSE 10

\* a calculateGoalXP without the floor of 1 on the difficulty multiplier
calculateGoalXPNoFloor(goal) ==
  RoundDiv(100 * goal.target * PriorityMultiplier10(goal.priority), 100)

calculateGoalXP(goal) ==
  RoundDiv(100 * Max2(10, goal.target) * PriorityMultiplier10(goal.priority), 100)

\* calculateLevel: Math.floor(Math.sqrt(xp / 100)) + 1
calculateLevel(xp) ==
  (CHOOSE n \in 0..xp : 100 * n * n <= xp /\ xp < 100 * (n + 1) * (n + 1)) + 1

\* awardXP(amount) up to its first wait, called from invocation c; the caller
\* goes on at ret when awardXP returns
AwardXP(c, call, amount, ret) ==
  LET xp == userXP + amount
      newLevel == calculateLevel(xp)
      leveledUp == newLevel > userLevel
  IN /\ userXP' = xp
     /\ userLevel' = IF leveledUp THEN newLevel ELSE userLevel
     /\ calls' = [calls EXCEPT ![c] =
          [call EXCEPT !.pc = IF leveledUp THEN "xpLevelEvent" ELSE "xpRead",
                       !.xpRet = ret, !.xp = amount]]

\* awardXP: await trackEvent('achievement_unlocked', level up)
XpLevelEvent(c) ==
  /\ calls[c].pc = "xpLevelEvent"
  /\ \E addOk, rowOk \in BOOLEAN :
       /\ Inject2(addOk, rowOk)
       /\ StoreTrackEvent(ServiceEvent("achievement_unlocked", 0, "level_up"),
                          addOk, rowOk)
  /\ calls' = [calls EXCEPT ![c].pc = "xpRead"]
  /\ UNCHANGED <<collectorVars, initialized, snapshot, goals, insights,
                 userXP, userLevel, recomputes, starts>>
  /\ UNCHANGED <<sessionVars, fnVars>>

\* awardXP: await getUserAnalytics(); the object handed to saveUserAnalytics
\* is the snapshot just read with xp and level replaced
XpRead(c) ==
  /\ calls[c].pc = "xpRead"
  /\ \E ok \in BOOLEAN :
       /\ Inject(ok)
       /\ LET userAnalytics == IF ok THEN snapshot ELSE <<>>
          IN calls' = [calls EXCEPT ![c] =
               IF userAnalytics = <<>>
               THEN [calls[c] EXCEPT !.pc = calls[c].xpRet]
               ELSE [calls[c] EXCEPT !.pc = "xpSave",
                              !.obj = [userAnalytics[1] EXCEPT !.xp = userXP,
                                                               !.level = userLevel]]]
  /\ UNCHANGED <<collectorVars, initialized, storeVars, userXP, userLevel,
                 recomputes, starts>>
  /\ UNCHANGED <<sessionVars, fnVars>>

\* awardXP: await saveUserAnalytics(...); a failure propagates out of the
\* invocation, which has no catch
XpSave(c) ==
  /\ calls[c].pc = "xpSave"
  /\ \E ok \in BOOLEAN :
       /\ Inject(ok)
       /\ IF ok
          THEN /\ snapshot' = <<calls[c].obj>>
               /\ calls' = [calls EXCEPT ![c].pc = calls[c].xpRet]
          ELSE /\ calls' = [calls EXCEPT ![c] = IdleCall]
               /\ UNCHANGED snapshot
  /\ UNCHANGED <<collectorVars, initialized, events, dailyUsage, goals,
                 insights, userXP, userLevel, recomputes, starts>>
  /\ UNCHANGED <<sessionVars, fnVars>>

\* the id under which unlockAchievement saves the insight, and the id
\* getUnlockedAchievements makes of it again
InsightId(achievementId) == <<"achievement_", achievementId>>
AchievementIdOf(insightId) == insightId[2]

\* unlockAchievement: await saveInsight(...), then awardXP
UnlockInsight(c) ==
  /\ calls[c].pc = "uaInsight"
  /\ \E ok \in BOOLEAN :
       /\ Inject(ok)
       /\ IF ok
          THEN /\ insights' = insights \cup {InsightId(calls[c].ach)}
               /\ AwardXP(c, calls[c], calls[c].xp, "uaEvent")
          ELSE /\ calls' = [calls EXCEPT ![c] = IdleCall]
               /\ UNCHANGED <<insights, userXP, userLevel>>
  /\ UNCHANGED <<collectorVars, initialized, snapshot, events, dailyUsage,
                 goals, recomputes, starts>>
  /\ UNCHANGED <<sessionVars, fnVars>>

-----------------------------------------------------------------------------
(* Achievement catalog *)

Def(id, metric, value, xpReward) ==
  [id |-> id, requirements |-> <<[metric |-> metric, value |-> value]>>,
   xpReward |-> xpReward]

\* initializeAchievements, in the insertion order of achievementDefinitions
Catalog ==
  << Def("first_voice_note", "voice_recordings", 1, 100),
     Def("first_file_upload", "file_uploads", 1, 100),
     Def("first_search", "searches", 1, 50),
     Def("voice_enthusiast", "voice_recordings", 10, 250),
     Def("content_creator", "total_items", 50, 500),
     Def("prolific_creator", "total_items", 100, 1000),
     Def("consistent_user", "daily_usage", 7, 300),
     Def("dedication_master", "daily_usage", 30, 1500),
     Def("legendary_dedication", "daily_usage", 100, 5000),
     Def("productivity_novice", "productivity_score", 70, 200),
     Def("efficiency_expert", "productivity_score", 90, 500),
     Def("productivity_legend", "productivity_score", 90, 2000),
     Def("search_explorer", "searches", 50, 300),
     Def("information_hunter", "search_success_rate", 90, 400),
     Def("marathon_session", "session_duration", 120, 350),
     Def("time_investor", "total_time", 3000, 800),
     Def("early_bird", "early_usage", 1, 200),
     Def("night_owl", "late_usage", 1, 200),
     Def("perfectionist", "perfect_week", 1, 1000) >>

\* checkPerfectWeek: at least 7 completed daily goals created in the last week
\* (every goal of a behaviour is that recent)
checkPerfectWeek ==
  Cardinality({g \in GoalIds : goals[g].status = "completed"
                               /\ goals[g].type \in {"daily_recordings",
                                    "daily_uploads", "daily_searches"}}) >= 7

\* getMetricValue; a rate is returned rounded down, which compares with the
\* whole-number requirement values as the exact rate does
getMetricValue(metric, userAnalytics, evs) ==
  LET searchEvents == {j \in DOMAIN evs : evs[j].type = "search_performed"}
      successful == {j \in searchEvents : evs[j].resultsCount > 0}
  IN CASE metric = "voice_recordings" -> userAnalytics.voiceRecordings
       [] metric = "file_uploads" -> userAnalytics.documentsUploaded
       [] metric = "total_items" -> userAnalytics.totalItems
       [] metric = "searches" -> userAnalytics.searchesPerformed
       [] metric = "productivity_score" -> userAnalytics.productivityScore
       [] metric = "daily_usage" -> userAnalytics.streakDays
       [] metric = "search_success_rate" ->
            IF searchEvents # {}
            THEN (Cardinality(successful) * 100) \div Cardinality(searchEvents)
            ELSE 0
       [] metric = "session_duration" -> userAnalytics.averageSessionDuration
       [] metric = "total_time" -> userAnalytics.totalTimeSpent
       [] metric = "early_usage" ->
            IF \E j \in DOMAIN evs : evs[j].hour < 7 THEN 1 ELSE 0
       [] metric = "late_usage" ->
            IF \E j \in DOMAIN evs : evs[j].hour >= 23 THEN 1 ELSE 0
       [] metric = "perfect_week" -> IF checkPerfectWeek THEN 1 ELSE 0
       [] OTHER -> 0

\* checkAchievementRequirements: all requirements must be met
checkAchievementRequirements(definition, userAnalytics, evs) ==
  \A r \in DOMAIN definition.requirements :
     getMetricValue(definition.requirements[r].metric, userAnalytics, evs)
       >= definition.requirements[r].value

\* getUnlockedAchievements, ids only; getInsights returns [] when the read fails
UnlockedIds(ok) == IF ok THEN {AchievementIdOf(i) : i \in insights} ELSE {}

\* arguments of checkAchievements: the caller's copy of the snapshot and the
\* events of the last 30 days
AnalyticsArg(voice, files, searches) ==
  [voiceRecordings |-> voice, documentsUploaded |-> files,
   totalItems |-> voice + files, searchesPerformed |-> searches,
   productivityScore |-> 0, streakDays |-> 0, averageSessionDuration |-> 0,
   totalTimeSpent |-> 0]

CheckInputs ==
  << [userAnalytics |-> AnalyticsArg(0, 0, 0), events |-> <<>>],
     [userAnalytics |-> AnalyticsArg(1, 0, 0), events |-> <<>>],
     [userAnalytics |-> AnalyticsArg(1, 0, 1),
      events |-> <<[type |-> "search_performed", resultsCount |-> 0,
                    hour |-> 10]>>] >>

\* the next definition from index `from` on that the loop of checkAchievements
\* unlocks (0: none), for the ids it read at its start
NextUnlock(call, from) ==
  LET inp == CheckInputs[call.input]
      hits == {j \in from..Len(Catalog) :
                 /\ Catalog[j].id \notin call.existing
                 /\ checkAchievementRequirements(Catalog[j], inp.userAnalytics,
                                                 inp.events)}
  IN IF hits = {} THEN 0 ELSE CHOOSE j \in hits : \A h \in hits : j <= h

\* the loop of checkAchievements from index `from` up to its next wait
ContinueCheck(call, from) ==
  LET j == NextUnlock(call, from)
  IN IF j = 0 THEN IdleCall
     ELSE [call EXCEPT !.pc = "uaInsight", !.idx = j, !.ach = Catalog[j].id,
                       !.xp = Catalog[j].xpReward]

\* checkAchievements(userAnalytics, events) up to its first wait
StartCheckAchievements(c, inp) ==
  /\ FreeCall(c)
  /\ starts < MaxStarts
  /\ starts' = starts + 1
  /\ calls' = [calls EXCEPT ![c] =
       [IdleCall EXCEPT !.op = "check", !.pc = "getUnlocked", !.input = inp]]
  /\ UNCHANGED <<collectorVars, initialized, storeVars, userXP, userLevel,
                 recomputes>>
  /\ UNCHANGED failures
  /\ UNCHANGED <<sessionVars, fnVars>>

\* checkAchievements: await getUnlockedAchievements(), then the loop
GetUnlocked(c) ==
  /\ calls[c].pc = "getUnlocked"
  /\ \E ok \in BOOLEAN :
       /\ Inject(ok)
       /\ calls' = [calls EXCEPT ![c] =
             ContinueCheck([@ EXCEPT !.existing = UnlockedIds(ok)], 1)]
  /\ UNCHANGED <<collectorVars, initialized, storeVars, userXP, userLevel,
                 recomputes, starts>>
  /\ UNCHANGED <<sessionVars, fnVars>>

\* unlockAchievement: await trackEvent('achievement_unlocked', ...); then the
\* caller goes on: the loop of checkAchievements, or updateGoalProgress
UnlockEvent(c) ==
  /\ calls[c].pc = "uaEvent"
  /\ \E addOk, rowOk \in BOOLEAN :
       /\ Inject2(addOk, rowOk)
       /\ StoreTrackEvent(ServiceEvent("achievement_unlocked", 0, calls[c].ach),
                          addOk, rowOk)
  /\ calls' = [calls EXCEPT ![c] =
       IF @.op = "check" THEN ContinueCheck(@, @.idx + 1)
       ELSE [@ EXCEPT !.pc = "updateGoal"]]
  /\ UNCHANGED <<collectorVars, initialized, snapshot, goals, insights,
                 userXP, userLevel, recomputes, starts>>
  /\ UNCHANGED <<sessionVars, fnVars>>

-----------------------------------------------------------------------------
(* Goal lifecycle *)

GoalInputs ==
  { [type |-> "daily_recordings", target |-> 1, priority |-> "high"],
    [type |-> "weekly_items", target |-> MaxValue, priority |-> "low"] }

NewGoalId == CHOOSE g \in GoalIds :
               /\ goals[g].status = "none"
               /\ \A h \in GoalIds : h < g => goals[h].status # "none"

\* storage.saveGoal(goal): db.goals.put, then the trackEvent('goal_created')
\* of saveGoal and of its caller, calls_ in all; trackEvent swallows a store
\* failure, and the store is either up or down for the whole of the call
PutGoal(inp, status, calls_) ==
  /\ \E g \in GoalIds : goals[g].status = "none"
  /\ goals' = [goals EXCEPT ![NewGoalId] =
       [status |-> status, type |-> inp.type, target |-> inp.target,
        current |-> 0, priority |-> inp.priority, createdAs |-> status]]
  /\ \E n \in {0, calls_} :
       /\ InjectCost(IF n = 0 THEN 1 ELSE 0)
       /\ events' = events \o
            [j \in 1..n |-> ServiceEvent("goal_created", NewGoalId, "")]
       /\ dailyUsage' = IF n > 0 THEN <<ReadTodayUsage(TRUE)>> ELSE dailyUsage
  /\ UNCHANGED <<collectorVars, initialized, snapshot, insights, gamVars,
                 recomputes, starts>>
  /\ UNCHANGED <<sessionVars, fnVars>>

\* GamificationService.createGoal: status 'active'; saveGoal tracks
\* goal_created and createGoal tracks it again
createGoal == \E inp \in GoalInputs : PutGoal(inp, "active", 2)

\* AnalyticsStorageService.saveGoal(goal) for a goal whose status is one of
\* the other values of Goal['status'] that a caller of the store may write
saveGoal ==
  \E status \in {"paused", "failed"} :
     PutGoal([type |-> "weekly_items", target |-> 1, priority |-> "medium"],
             status, 1)

\* updateGoalProgress(goalId, currentValue) of the GamificationService
\* (op = "gam") or of the AnalyticsService (op = "ana") up to its first wait
StartUpdateGoalProgress(c, op, g, v) ==
  /\ FreeCall(c)
  /\ starts < MaxStarts
  /\ starts' = starts + 1
  /\ IF op = "ana"
     THEN \E o \in EnsureInitializedOutcomes :
             /\ InjectCost(o.cost)
             /\ initialized' = o.initialized
             /\ snapshot' = o.snapshot
             /\ calls' = [calls EXCEPT ![c] =
                  IF o.threw THEN IdleCall
                  ELSE [IdleCall EXCEPT !.op = op, !.pc = "getGoals",
                                        !.goalId = g, !.value = v]]
     ELSE /\ calls' = [calls EXCEPT ![c] =
               [IdleCall EXCEPT !.op = op, !.pc = "getGoals", !.goalId = g,
                                !.value = v]]
          /\ UNCHANGED <<initialized, snapshot, failures>>
  /\ UNCHANGED <<collectorVars, events, dailyUsage, goals, insights, userXP,
                 userLevel, recomputes>>
  /\ UNCHANGED <<sessionVars, fnVars>>

\* the test that guards the completion in GamificationService.updateGoalProgress
Completes(currentValue, goal) ==
  currentValue >= goal.target /\ goal.status # "completed"

\* await getGoals(), find the goal, build `updates`; the GamificationService
\* awards the XP of a completion at once
GoalGetGoals(c) ==
  /\ calls[c].pc = "getGoals"
  /\ \E ok \in BOOLEAN :
       /\ Inject(ok)
       /\ LET call == calls[c]
              goal == IF ok THEN goals[call.goalId] ELSE NoGoal
              read == [call EXCEPT !.wasCompleted = (goal.status = "completed")]
          IN IF goal.status = "none"
             THEN /\ calls' = [calls EXCEPT ![c] = IdleCall]
                  /\ UNCHANGED <<userXP, userLevel>>
             ELSE IF call.op = "gam"
             THEN IF Completes(call.value, goal)
                  THEN AwardXP(c, [read EXCEPT !.completing = TRUE],
                               calculateGoalXP(goal), "gcEvent")
                  ELSE /\ calls' = [calls EXCEPT ![c] =
                            [read EXCEPT !.pc = "updateGoal"]]
                       /\ UNCHANGED <<userXP, userLevel>>
             ELSE /\ calls' = [calls EXCEPT ![c] =
                       [read EXCEPT !.pc = "updateGoal",
                                    !.completing = (call.value >= goal.target)]]
                  /\ UNCHANGED <<userXP, userLevel>>
  /\ UNCHANGED <<collectorVars, initialized, storeVars, recomputes, starts>>
  /\ UNCHANGED <<sessionVars, fnVars>>

\* GamificationService.updateGoalProgress: await trackEvent('goal_completed')
GoalCompletedEvent(c) ==
  /\ calls[c].pc = "gcEvent"
  /\ \E addOk, rowOk \in BOOLEAN :
       /\ Inject2(addOk, rowOk)
       /\ StoreTrackEvent(ServiceEvent("goal_completed", calls[c].goalId, ""),
                          addOk, rowOk)
  /\ calls' = [calls EXCEPT ![c].pc = "gaGetGoals"]
  /\ UNCHANGED <<collectorVars, initialized, snapshot, goals, insights,
                 userXP, userLevel, recomputes, starts>>
  /\ UNCHANGED <<sessionVars, fnVars>>

\* checkGoalAchievements: await getGoals(), count the completed goals
checkGoalAchievements(c) ==
  /\ calls[c].pc = "gaGetGoals"
  /\ \E ok \in BOOLEAN :
       /\ Inject(ok)
       /\ LET completedGoals ==
                IF ok THEN {g \in GoalIds : goals[g].status = "completed"} ELSE {}
              n == Cardinality(completedGoals)
          IN calls' = [calls EXCEPT ![c] =
               IF n = 1 THEN [@ EXCEPT !.pc = "uaInsight", !.ach = "first_goal",
                                       !.xp = 150]
               ELSE IF n = 10
               THEN [@ EXCEPT !.pc = "uaInsight", !.ach = "goal_master",
                              !.xp = 500]
               ELSE [@ EXCEPT !.pc = "updateGoal"]]
  /\ UNCHANGED <<collectorVars, initialized, storeVars, userXP, userLevel,
                 recomputes, starts>>
  /\ UNCHANGED <<sessionVars, fnVars>>

\* storage.updateGoal: await db.goals.update(goalId, updates); a failure is
\* rethrown to the caller of updateGoalProgress
UpdateGoal(c) ==
  /\ calls[c].pc = "updateGoal"
  /\ \E ok \in BOOLEAN :
       /\ Inject(ok)
       /\ LET call == calls[c]
          IN IF ok
             THEN /\ goals' = [goals EXCEPT ![call.goalId] =
                       [@ EXCEPT !.current = call.value,
                                 !.status = IF call.completing THEN "completed"
                                            ELSE @]]
                  /\ calls' = [calls EXCEPT ![c] =
                       IF call.completing THEN [call EXCEPT !.pc = "ugEvent"]
                       ELSE IdleCall]
             ELSE /\ calls' = [calls EXCEPT ![c] = IdleCall]
                  /\ UNCHANGED goals
  /\ UNCHANGED <<collectorVars, initialized, snapshot, events, dailyUsage,
                 insights, userXP, userLevel, recomputes, starts>>
  /\ UNCHANGED <<sessionVars, fnVars>>

\* storage.updateGoal: updates.status === 'completed', so
\* await trackEvent('goal_completed')
UpdateGoalEvent(c) ==
  /\ calls[c].pc = "ugEvent"
  /\ \E addOk, rowOk \in BOOLEAN :
       /\ Inject2(addOk, rowOk)
       /\ StoreTrackEvent(ServiceEvent("goal_completed", calls[c].goalId, ""),
                          addOk, rowOk)
  /\ calls' = [calls EXCEPT ![c] = IdleCall]
  /\ UNCHANGED <<collectorVars, initialized, snapshot, goals, insights,
                 userXP, userLevel, recomputes, starts>>
  /\ UNCHANGED <<sessionVars, fnVars>>

-----------------------------------------------------------------------------
(* Aggregator: snapshot recomputation *)

IdleRecompute ==
  [pc |-> "idle", items |-> [voice |-> 0, files |-> 0], nEvents |-> 0,
   nSearches |-> 0, analytics |-> InitialAnalytics, readFailed |-> FALSE]

ContentInputs == {[voice |-> 0, files |-> 0], [voice |-> 1, files |-> 1]}

calculateExperiencePoints(totalItems, totalEvents) ==
  totalItems * 100 + totalEvents * 10

calculateUserLevel(totalItems, totalEvents) ==
  (calculateExperiencePoints(totalItems, totalEvents) \div 1000) + 1

\* the `analytics` object of updateUserAnalytics (lines 70-110), for the
\* fields of the snapshot that the model keeps
ComputeAnalytics(items, nEvents, nSearches, rows) ==
  [totalItems |-> items.voice + items.files,
   voiceRecordings |-> items.voice,
   documentsUploaded |-> items.files,
   searchesPerformed |-> nSearches,
   dailyUsage |-> rows,
   level |-> calculateUserLevel(items.voice + items.files, nEvents),
   xp |-> calculateExperiencePoints(items.voice + items.files, nEvents)]

\* updateUserAnalytics(contentItems) up to its first wait
StartRecompute(r, items) ==
  /\ recomputes[r].pc \in {"idle", "returned", "threw"}
  /\ starts < MaxStarts
  /\ \E o \in EnsureInitializedOutcomes :
       /\ InjectCost(o.cost)
       /\ initialized' = o.initialized
       /\ snapshot' = o.snapshot
       /\ recomputes' = [recomputes EXCEPT ![r] =
            [IdleRecompute EXCEPT !.pc = IF o.threw THEN "threw" ELSE "getEvents",
                                  !.items = items]]
  /\ starts' = starts + 1
  /\ UNCHANGED <<collectorVars, events, dailyUsage, goals, insights, gamVars>>
  /\ UNCHANGED <<sessionVars, fnVars>>

\* await storageService.getEvents(last 90 days); getEvents returns [] when the
\* read fails (part_010:203-206)
RecomputeGetEvents(r) ==
  /\ recomputes[r].pc = "getEvents"
  /\ \E ok \in BOOLEAN :
       /\ Inject(ok)
       /\ LET evs == IF ok THEN events ELSE <<>>
          IN recomputes' = [recomputes EXCEPT ![r] =
               [@ EXCEPT !.pc = "getDailyUsageRange",
                         !.nEvents = Len(evs),
                         !.nSearches = Cardinality({j \in DOMAIN evs :
                                          evs[j].type = "search_performed"}),
                         !.readFailed = ~ok]]
  /\ UNCHANGED <<collectorVars, initialized, storeVars, gamVars, starts>>
  /\ UNCHANGED <<sessionVars, fnVars>>

\* await storageService.getDailyUsageRange(last 30 days), which returns []
\* when the read fails (part_010:147-150); then the analytics object is built
\* (the getEvents({limit: 1}) of getAccountCreatedDate only yields a date)
RecomputeGetDailyUsageRange(r) ==
  /\ recomputes[r].pc = "getDailyUsageRange"
  /\ \E ok \in BOOLEAN :
       /\ Inject(ok)
       /\ LET rows == IF ok THEN dailyUsage ELSE <<>>
              rc == recomputes[r]
          IN recomputes' = [recomputes EXCEPT ![r] =
               [rc EXCEPT !.pc = "save",
                          !.analytics = ComputeAnalytics(rc.items, rc.nEvents,
                                                         rc.nSearches, rows),
                          !.readFailed = rc.readFailed \/ ~ok]]
  /\ UNCHANGED <<collectorVars, initialized, storeVars, gamVars, starts>>
  /\ UNCHANGED <<sessionVars, fnVars>>

\* await storageService.saveUserAnalytics(analytics); a failure is rethrown
RecomputeSave(r) ==
  /\ recomputes[r].pc = "save"
  /\ \E ok \in BOOLEAN :
       /\ Inject(ok)
       /\ IF ok
          THEN /\ snapshot' = <<recomputes[r].analytics>>
               /\ recomputes' = [recomputes EXCEPT ![r].pc = "returned"]
          ELSE /\ recomputes' = [recomputes EXCEPT ![r].pc = "threw"]
               /\ UNCHANGED snapshot
  /\ UNCHANGED <<collectorVars, initialized, events, dailyUsage, goals,
                 insights, gamVars, starts>>
  /\ UNCHANGED <<sessionVars, fnVars>>

\* AnalyticsService.trackSearch on an initialized service:
\* trackEvent('search_performed') straight to the store
trackSearch ==
  /\ starts < MaxStarts
  /\ starts' = starts + 1
  /\ initialized
  /\ \E addOk, rowOk \in BOOLEAN :
       /\ Inject2(addOk, rowOk)
       /\ StoreTrackEvent([type |-> "search_performed", src |-> 0,
                           duration |-> 0, goalId |-> 0, ach |-> ""],
                          addOk, rowOk)
  /\ UNCHANGED <<collectorVars, initialized, snapshot, goals, insights,
                 gamVars, recomputes>>
  /\ UNCHANGED <<sessionVars, fnVars>>

-----------------------------------------------------------------------------
(* Inputs of the Collector *)

BufferedInputs  == {<<"search_performed", 0>>, <<"item_viewed", 0>>}
CompletedInputs == {<<"voice_recording_completed", 120>>}

Track ==
  /\ Len(tracked) < MaxEvents
  /\ \/ \E inp \in BufferedInputs : TrackBuffered(inp[1], inp[2])
     \/ \E inp \in CompletedInputs : TrackCompleted(inp[1], inp[2])

\* a burst of trackSearchStart calls
TrackBurst ==
  /\ Len(tracked) < MaxBurst
  /\ TrackBuffered("search_performed", 0)

FlushStep ==
  \E k \in 1..MaxFlushes :
     \/ FlushInitRead(k)
     \/ FlushInitSave(k)
     \/ FlushAdd(k)
     \/ FlushRowRead(k)
     \/ FlushRowWrite(k)

-----------------------------------------------------------------------------
(* State after construction *)

Init ==
  /\ activityBuffer = <<>>
  /\ flushes = [k \in 1..MaxFlushes |-> IdleFlush]
  /\ isActive = TRUE
  /\ tracked = <<>>
  /\ handed = {}
  /\ initialized = FALSE
  /\ snapshot = <<>>
  /\ events = <<>>
  /\ dailyUsage = <<>>
  /\ goals = [g \in GoalIds |-> NoGoal]
  /\ insights = {}
  /\ userXP = 0
  /\ userLevel = 1
  /\ calls = [c \in 1..MaxCalls |-> IdleCall]
  /\ recomputes = [r \in 1..MaxRecomputes |-> IdleRecompute]
  /\ starts = 0
  /\ failures = 0
  /\ flushInterval = "set"
  /\ sessionEnd = IdleSessionEnd
  /\ destroyed = FALSE
  /\ argument = <<>>
  /\ result = <<>>

\* the state once the application has awaited analyticsService.initialize()
\* (part_004:65) on an empty store: the initial snapshot is saved
InitReady ==
  /\ activityBuffer = <<>>
  /\ flushes = [k \in 1..MaxFlushes |-> IdleFlush]
  /\ isActive = TRUE
  /\ tracked = <<>>
  /\ handed = {}
  /\ initialized = TRUE
  /\ snapshot = <<InitialAnalytics>>
  /\ events = <<>>
  /\ dailyUsage = <<>>
  /\ goals = [g \in GoalIds |-> NoGoal]
  /\ insights = {}
  /\ userXP = 0
  /\ userLevel = 1
  /\ calls = [c \in 1..MaxCalls |-> IdleCall]
  /\ recomputes = [r \in 1..MaxRecomputes |-> IdleRecompute]
  /\ starts = 0
  /\ failures = 0
  /\ flushInterval = "set"
  /\ sessionEnd = IdleSessionEnd
  /\ destroyed = FALSE
  /\ argument = <<>>
  /\ result = <<>>

Next ==
  \/ Track
  \/ TimerTick
  \/ handleSessionPause
  \/ handleSessionResume
  \/ FlushStep

Spec == Init /\ [][Next]_vars

\* the steps of a flush on an initialized AnalyticsService
FlushStepReady ==
  \E k \in 1..MaxFlushes :
     \/ FlushAdd(k)
     \/ FlushRowRead(k)
     \/ FlushRowWrite(k)

\* trackSearchStart, up to MaxEvents events
TrackSearchStart ==
  /\ Len(tracked) < MaxEvents
  /\ TrackBuffered("search_performed", 0)

\* the Collector of the application (built once initialize() has returned)
\* with its teardown: session end and destroy
NextSession ==
  \/ TrackSearchStart
  \/ TimerTick
  \/ handleSessionPause
  \/ handleSessionResume
  \/ handleSessionEnd
  \/ destroy
  \/ FlushStepReady

SpecSession == InitReady /\ [][NextSession]_vars

\* a burst of search tracking with no timer tick: the only flushes are those
\* bufferEvent starts
NextThreshold ==
  \/ TrackBurst
  \/ FlushStep

SpecThreshold == Init /\ [][NextThreshold]_vars

\* goal lifecycle: createGoal, saveGoal and both updateGoalProgress methods
NextGoals ==
  \/ createGoal
  \/ saveGoal
  \/ \E c \in 1..MaxCalls, op \in {"gam", "ana"}, g \in GoalIds,
        v \in 0..MaxValue : StartUpdateGoalProgress(c, op, g, v)
  \/ \E c \in 1..MaxCalls :
        \/ GoalGetGoals(c)
        \/ XpLevelEvent(c)
        \/ XpRead(c)
        \/ XpSave(c)
        \/ GoalCompletedEvent(c)
        \/ checkGoalAchievements(c)
        \/ UnlockInsight(c)
        \/ UnlockEvent(c)
        \/ UpdateGoal(c)
        \/ UpdateGoalEvent(c)

SpecGoals == InitReady /\ [][NextGoals]_vars

\* achievements and XP: overlapping checkAchievements calls
NextAchievements ==
  \/ \E c \in 1..MaxCalls, inp \in DOMAIN CheckInputs :
        StartCheckAchievements(c, inp)
  \/ \E c \in 1..MaxCalls :
        \/ GetUnlocked(c)
        \/ UnlockInsight(c)
        \/ XpLevelEvent(c)
        \/ XpRead(c)
        \/ XpSave(c)
        \/ UnlockEvent(c)

SpecAchievements == InitReady /\ [][NextAchievements]_vars

\* the snapshot and its writers: overlapping updateUserAnalytics calls, one
\* checkAchievements call (whose unlocks award XP) and events written
\* straight to the store
NextSnapshot ==
  \/ trackSearch
  \/ \E inp \in DOMAIN CheckInputs : StartCheckAchievements(1, inp)
  \/ GetUnlocked(1)
  \/ UnlockInsight(1)
  \/ XpLevelEvent(1)
  \/ XpRead(1)
  \/ XpSave(1)
  \/ UnlockEvent(1)
  \/ \E r \in 1..MaxRecomputes, items \in ContentInputs : StartRecompute(r, items)
  \/ \E r \in 1..MaxRecomputes :
        \/ RecomputeGetEvents(r)
        \/ RecomputeGetDailyUsageRange(r)
        \/ RecomputeSave(r)

SpecSnapshot == InitReady /\ [][NextSnapshot]_vars

-----------------------------------------------------------------------------
(* Collector: delivery *)

TrackedIds == 1..Len(tracked)

\* the events of a flush that it has not yet handed to trackEvent
PendingPart(f) == IF f.pc = "idle" THEN <<>> ELSE SubSeq(f.batch, f.i, Len(f.batch))

Occurrences(s, id) == Cardinality({j \in DOMAIN s : s[j].id = id})

\* in how many places of the Collector (live buffer, batches in flight) the
\* event sits
Places(id) ==
  Occurrences(activityBuffer, id)
  + SumSeq([k \in 1..MaxFlushes |-> Occurrences(PendingPart(flushes[k]), id)])

StoredRecords(id) == {j \in DOMAIN events : events[j].src = id}

CollectorQuiet ==
  /\ activityBuffer = <<>>
  /\ \A k \in 1..MaxFlushes : flushes[k].pc = "idle"

\* C1: a store failure during a flush never silently drops an event: every
\* tracked event is still waiting in the Collector (live buffer or a batch in
\* flight) or has a record in the store.
C1_NoSilentDrop ==
  \A id \in TrackedIds : Places(id) > 0 \/ StoredRecords(id) # {}

\* C2: once the buffer has drained, the store holds exactly one record per
\* tracked event.
C2_StoredEqualsTracked ==
  CollectorQuiet =>
    Cardinality({j \in DOMAIN events : events[j].src \in TrackedIds}) = Len(tracked)

\* C3: buffer swap before drain: every tracked event is in exactly one place,
\* the live buffer or one batch in flight, until it has been handed to the
\* store service, and in none afterwards; it is never lost and never in two
\* batches.
C3_SwapBeforeDrain ==
  \A id \in TrackedIds : Places(id) + (IF id \in handed THEN 1 ELSE 0) = 1

\* C3 witness: a flush is in progress and an event tracked after it started
\* sits in the new live buffer.
C3_Witness ==
  \E k \in 1..MaxFlushes :
     /\ flushes[k].pc \in {"add", "rowRead", "rowWrite"}
     /\ activityBuffer # <<>>
     /\ \A j \in DOMAIN flushes[k].batch :
           flushes[k].batch[j].id < activityBuffer[1].id

\* C4: retry order is preserved: the events pending in the live buffer are in
\* the order in which they were tracked.
C4_BufferInTrackOrder ==
  \A a, b \in DOMAIN activityBuffer :
     a < b => activityBuffer[a].id < activityBuffer[b].id

TrackedOfType(t) == Cardinality({id \in TrackedIds : tracked[id] = t})

\* C10: the real-time update does not wait for a flush: whenever no track call
\* is running, today's stored row reflects every tracked event of a matched
\* type, those still in the buffer included.
C10_RowReflectsTrackedEvents ==
  LET row == ReadTodayUsage(TRUE)
  IN /\ row.searchCount >= TrackedOfType("search_performed")
     /\ row.itemsCreated >= TrackedOfType("voice_recording_completed")
                            + TrackedOfType("file_upload_completed")
     /\ row.itemsDeleted >= TrackedOfType("item_deleted")

-----------------------------------------------------------------------------
(* Goals: completion and terminal statuses *)

\* the step appends a goal_completed event for goal g
AppendsGoalCompleted(g) ==
  /\ Len(events') > Len(events)
  /\ events'[Len(events')].type = "goal_completed"
  /\ events'[Len(events')].goalId = g

\* C5: completing a goal is idempotent: an updateGoalProgress call that finds
\* a goal, created active, already completed, and carries the same or a higher
\* value, awards no XP and appends no goal_completed event in any of its
\* steps; no other call is in progress.
C5_CompletionIdempotent ==
  [][\A c \in 1..MaxCalls :
       ( /\ calls[c].op \in {"gam", "ana"}
         /\ calls[c].wasCompleted
         /\ \A d \in 1..MaxCalls : d # c => calls[d].pc = "idle"
         /\ goals[calls[c].goalId].createdAs = "active"
         /\ calls[c].value >= goals[calls[c].goalId].current
         /\ calls'[c] # calls[c] )
       => (userXP' = userXP /\ ~AppendsGoalCompleted(calls[c].goalId))]_vars

-----------------------------------------------------------------------------
(* Achievements: unlock *)

\* C6: achievement unlock is monotonic: a checkAchievements call about to
\* unlock an id that is already in the unlocked set awards no XP for it, and
\* no id leaves the unlocked set.
C6_UnlockMonotonic ==
  [][/\ insights \subseteq insights'
     /\ \A c \in 1..MaxCalls :
          ( /\ calls[c].op = "check"
            /\ calls[c].pc = "uaInsight"
            /\ InsightId(calls[c].ach) \in insights
            /\ calls'[c] # calls[c] )
          => userXP' = userXP]_vars

-----------------------------------------------------------------------------
(* Snapshot: writes and failed recomputations *)

\* C8: the snapshot is replaced wholesale: every write of the stored snapshot
\* stores the object of one recomputation (or the initial snapshot), all of
\* its fields together.
C8_SnapshotWholesale ==
  [][snapshot' # snapshot
     => \/ snapshot' = <<InitialAnalytics>>
        \/ \E r \in 1..MaxRecomputes :
              /\ recomputes[r].pc = "save"
              /\ snapshot' = <<recomputes[r].analytics>>]_vars

\* C9: a failed recomputation is fail-safe: an updateUserAnalytics call in
\* which a read of the events or of the daily rows failed, or the write of the
\* snapshot fails, ends with an error and leaves the stored snapshot as it was.
C9_FailedRecomputeFailSafe ==
  [][\A r \in 1..MaxRecomputes :
       (recomputes[r].pc = "save" /\ recomputes'[r].pc # "save")
       => /\ recomputes[r].readFailed => recomputes'[r].pc = "threw"
          /\ recomputes'[r].pc = "threw" => snapshot' = snapshot]_vars

-----------------------------------------------------------------------------
(* Collector: threshold flush and buffer size *)

FlushesIdle == \A k \in 1..MaxFlushes : flushes[k].pc = "idle"

\* the tracked events that complete batches of FlushThreshold
FlushedByThreshold == 1..(Len(tracked) - (Len(tracked) % FlushThreshold))

\* C11: threshold flush: with no timer tick and no store failure, once the
\* flush started by the track call that filled the buffer has returned, the
\* store holds exactly the events of the full batches of 10, one record each,
\* and the events tracked after them are in the buffer (after 11 events: 10
\* stored, 1 buffered).
C11_ThresholdFlush ==
  (failures = 0 /\ FlushesIdle)
  => /\ {events[j].src : j \in DOMAIN events} = FlushedByThreshold
     /\ Len(events) = Cardinality(FlushedByThreshold)
     /\ Len(activityBuffer) = Len(tracked) % FlushThreshold
     /\ \A j \in DOMAIN activityBuffer :
           activityBuffer[j].id = Cardinality(FlushedByThreshold) + j

\* C11 witness: 11 events tracked without failure, the threshold flush has
\* returned, 10 events are stored and the 11th is in the buffer.
C11_Witness ==
  /\ failures = 0
  /\ flushInterval = "set"
  /\ sessionEnd = IdleSessionEnd
  /\ destroyed = FALSE
  /\ FlushesIdle
  /\ Len(tracked) = 11
  /\ Len(events) = 10
  /\ Len(activityBuffer) = 1
  /\ activityBuffer[1].id = 11

\* C12: the buffer is bounded: it never holds more than 10 events.
C12_BufferBounded == Len(activityBuffer) <= FlushThreshold

-----------------------------------------------------------------------------
(* Collector: session end, teardown and pause *)

SessionEndedIds == {i \in DOMAIN tracked : tracked[i] = "session_ended"}

\* the step starts a flush that neither a track call, nor a pause, nor session
\* end, nor destroy started: a flush started by the timer
TimerFlushStarts ==
  /\ tracked' = tracked
  /\ isActive' = isActive
  /\ sessionEnd' = sessionEnd
  /\ destroyed' = destroyed
  /\ \E k \in 1..MaxFlushes : flushes[k].pc = "idle" /\ flushes'[k].pc # "idle"

TornDown == destroyed \/ sessionEnd.pc = "done"

\* C13: session end performs a final flush: in the step in which
\* handleSessionEnd returns, the session_ended event and every event tracked
\* before it have been handed to the store (trackEvent has returned for them,
\* or is running for them), and none of them is left in the buffer.
C13_FinalFlush ==
  [][(sessionEnd.pc # "done" /\ sessionEnd'.pc = "done")
     => /\ SessionEndedIds # {}
        /\ \A e \in SessionEndedIds : \A id \in 1..e :
              \/ id \in handed'
              \/ \E k \in 1..MaxFlushes :
                    /\ flushes'[k].pc # "idle"
                    /\ flushes'[k].batch[flushes'[k].i].id = id
        /\ \A e \in SessionEndedIds : \A j \in DOMAIN activityBuffer' :
              activityBuffer'[j].id > e]_vars

\* C14: the timer is cancelled once and for good, by teardown only, and no
\* timer-driven flush starts once session end or destroy has completed.
C14_TimerCancelledAtTeardown ==
  [][/\ flushInterval = "cleared" => flushInterval' = "cleared"
     /\ flushInterval' # flushInterval
          => (destroyed' # destroyed \/ sessionEnd'.pc = "done")
     /\ TornDown => (flushInterval = "cleared" /\ ~TimerFlushStarts)]_vars

\* C14 witness: teardown has completed, the timer is cleared, and events wait
\* in the buffer with a flush slot free, where a running timer would flush.
C14_Witness ==
  /\ TornDown
  /\ flushInterval = "cleared"
  /\ activityBuffer # <<>>
  /\ FreeSlots # {}

\* C15: session pause halts the timer: no timer-driven flush starts while the
\* session is paused (between a pause and the next resume).
C15_NoTimerFlushWhilePaused ==
  [][(~isActive /\ ~isActive') => ~TimerFlushStarts]_vars

-----------------------------------------------------------------------------
(* Milestones *)

\* every variable of the services; the calculations below leave them alone
programVars == <<collectorVars, initialized, storeVars, gamVars, recomputes,
                 starts, failures, sessionVars>>

MaxChecks == 2      \* milestone checks in one behaviour

\* GamificationService.checkMilestones: the thresholds of its three loops
contentMilestones == {1, 5, 10, 25, 50, 100, 250, 500, 1000}
streakMilestones  == {3, 7, 14, 30, 60, 100, 365}
searchMilestones  == {10, 50, 100, 500, 1000}

\* GamificationService.checkMilestones(userAnalytics): a milestone is pushed
\* when the metric is equal (===) to the threshold; nothing is read from or
\* written to a record of earlier reports
checkMilestones(userAnalytics) ==
       {[type |-> "items_milestone", value |-> m] :
          m \in {t \in contentMilestones : userAnalytics.totalItems = t}}
  \cup {[type |-> "streak_milestone", value |-> m] :
          m \in {t \in streakMilestones : userAnalytics.streakDays = t}}
  \cup {[type |-> "search_milestone", value |-> m] :
          m \in {t \in searchMilestones : userAnalytics.searchesPerformed = t}}

\* AnalyticsCalculationService.detectMilestones: the thresholds of its loops
itemMilestones         == {10, 25, 50, 100, 250, 500, 1000}
detectStreakMilestones == {7, 14, 30, 60, 100}

\* AnalyticsCalculationService.detectMilestones(userAnalytics, events):
\* first_recording when events.find meets a voice_recording_completed event;
\* an items or streak milestone when the metric is at least (>=) the threshold
detectMilestones(userAnalytics, evs) ==
       (IF \E i \in DOMAIN evs : evs[i] = "voice_recording_completed"
        THEN {[type |-> "first_recording", value |-> 1]} ELSE {})
  \cup {[type |-> "items_milestone", value |-> m] :
          m \in {t \in itemMilestones : userAnalytics.totalItems >= t}}
  \cup {[type |-> "streak_milestone", value |-> m] :
          m \in {t \in detectStreakMilestones : userAnalytics.streakDays >= t}}

\* the snapshots and event histories the checks are applied to
SnapshotInputs ==
  [totalItems : {0, 1, 10, 25}, streakDays : {0, 3, 7},
   searchesPerformed : {0, 10}]
EventInputs == {<<>>, <<"search_performed">>,
                <<"search_performed", "voice_recording_completed">>}

IsPrefix(s, t) == Len(s) <= Len(t) /\ SubSeq(t, 1, Len(s)) = s

\* b is a snapshot taken after a: the counts of items and searches and the
\* event history only grow (the streak may rise or be reset)
Succeeds(b, a) ==
  /\ b # a
  /\ b.userAnalytics.totalItems >= a.userAnalytics.totalItems
  /\ b.userAnalytics.searchesPerformed >= a.userAnalytics.searchesPerformed
  /\ IsPrefix(a.events, b.events)

\* the next snapshot of the user's analytics is taken
TakeSnapshot ==
  /\ \E ua \in SnapshotInputs, evs \in EventInputs :
       LET b == [userAnalytics |-> ua, events |-> evs]
       IN /\ argument # <<>> => Succeeds(b, argument)
          /\ argument' = b
  /\ UNCHANGED <<programVars, result>>

\* the latest snapshot has not been checked by fn yet
Unchecked(fn) ==
  /\ argument # <<>>
  /\ Len(result) < MaxChecks
  /\ \A i \in DOMAIN result : ~(result[i].fn = fn /\ result[i].on = argument)

\* gamificationService.checkMilestones(userAnalytics) on the latest snapshot
CheckMilestones ==
  /\ Unchecked("checkMilestones")
  /\ result' = Append(result,
                 [fn |-> "checkMilestones", on |-> argument,
                  milestones |-> checkMilestones(argument.userAnalytics)])
  /\ UNCHANGED <<programVars, argument>>

\* detectMilestones(userAnalytics, events) on the latest snapshot
DetectMilestones ==
  /\ Unchecked("detectMilestones")
  /\ result' = Append(result,
                 [fn |-> "detectMilestones", on |-> argument,
                  milestones |-> detectMilestones(argument.userAnalytics,
                                                  argument.events)])
  /\ UNCHANGED <<programVars, argument>>

NextMilestones ==
  \/ TakeSnapshot
  \/ CheckMilestones
  \/ DetectMilestones

SpecMilestones == InitReady /\ [][NextMilestones]_vars

\* C16: milestones fire once: over the checks that one function makes on
\* successive snapshots, no milestone (type, value) is reported by two checks.
C16_MilestonesFireOnce ==
  \A i, j \in DOMAIN result :
     (i < j /\ result[i].fn = result[j].fn)
        => result[i].milestones \cap result[j].milestones = {}

-----------------------------------------------------------------------------
(* Achievements: errors while unlocking *)

\* the definitions of the catalog that a checkAchievements call has to unlock:
\* not among the ids it read at its start, requirements met on its arguments
MetDefinitions(call) ==
  {j \in DOMAIN Catalog :
     /\ Catalog[j].id \notin call.existing
     /\ checkAchievementRequirements(Catalog[j],
                                     CheckInputs[call.input].userAnalytics,
                                     CheckInputs[call.input].events)}

\* C17: errors are isolated per definition: when a checkAchievements call
\* ends, every definition whose requirements are met, other than the one it
\* was working on last, has been unlocked.
C17_ErrorsIsolatedPerDefinition ==
  [][\A c \in 1..MaxCalls :
       (calls[c].op = "check" /\ calls[c].pc # "getUnlocked"
          /\ calls'[c].op = "none")
       => \A j \in MetDefinitions(calls[c]) \ {calls[c].idx} :
             InsightId(Catalog[j].id) \in insights']_vars

-----------------------------------------------------------------------------
(* Collector: store failures during a flush *)

\* the flush in slot k has finished with its current event in this step
DoneWithEvent(k) ==
  /\ flushes[k].pc # "idle"
  /\ flushes'[k].pc = "idle" \/ flushes'[k].i # flushes[k].i

\* C18: a store failure during a flush is caught and the batch re-queued for
\* the next tick: when a store operation fails in a step of a flush and the
\* flush is done with the event it was writing, that event is in the buffer
\* again.
C18_FailedFlushRequeued ==
  [][\A k \in 1..MaxFlushes :
       (failures' > failures /\ DoneWithEvent(k))
       => \E j \in DOMAIN activityBuffer' :
             activityBuffer'[j].id = flushes[k].batch[flushes[k].i].id]_vars

-----------------------------------------------------------------------------
(* Streak *)

\* Instants are counted in half days of local time: instant t lies in the
\* local calendar day t \div DayLength.
DayLength == 2      \* 1000 * 60 * 60 * 24 ms, in half days
MaxClock  == 4      \* the last instant of a behaviour
MaxItemsPerRow == 2 \* items created that one daily row counts

\* local time minus UTC, in half days: a user at UTC and one at UTC+12
TimezoneOffsets == {0, 1}

\* setHours(0, 0, 0, 0): the local midnight that starts the day of instant t
Midnight(t) == (t \div DayLength) * DayLength

\* formatDateKey: date.toISOString().split('T')[0], the calendar day in UTC
formatDateKey(t, offset) == (t - offset) \div DayLength

\* dailyUsage.sort((a, b) => b.date - a.date): descending by date (the dates
\* of the rows of the store are distinct)
SortedByDateDescending(rows) ==
  [i \in 1..Len(rows) |->
     rows[CHOOSE j \in 1..Len(rows) :
            Cardinality({k \in 1..Len(rows) : rows[k].date > rows[j].date})
              = i - 1]]

\* the for loop of calculateCurrentStreak from row i on
RECURSIVE StreakLoop(_, _, _, _)
StreakLoop(sortedUsage, i, streak, today) ==
  IF i > Len(sortedUsage) THEN streak
  ELSE LET usageDate == Midnight(sortedUsage[i].date)
           daysDiff  == (today - usageDate) \div DayLength
       IN IF daysDiff = streak /\ sortedUsage[i].itemsCreated > 0
          THEN StreakLoop(sortedUsage, i + 1, streak + 1, today)
          ELSE streak

\* AnalyticsService.calculateCurrentStreak(dailyUsage), called at instant now
calculateCurrentStreak(usage, now) ==
  IF Len(usage) = 0 THEN 0
  ELSE StreakLoop(SortedByDateDescending(usage), 1, 0, Midnight(now))

\* the application is opened in a time zone; no daily row exists yet
OpenApp ==
  /\ argument = <<>>
  /\ \E offset \in TimezoneOffsets :
       argument' = [now |-> 0, offset |-> offset, dailyUsage |-> <<>>]
  /\ UNCHANGED <<programVars, result>>

\* time passes
ClockAdvances ==
  /\ argument # <<>>
  /\ argument.now < MaxClock
  /\ argument' = [argument EXCEPT !.now = @ + 1]
  /\ result' = <<>>
  /\ UNCHANGED programVars

\* StorageService.updateRealTimeMetrics for an event that creates `items`
\* items: getDailyUsage(today) || createEmptyDailyUsage(today), add, then
\* saveDailyUsage(today, ...).  The row is found by formatDateKey; a new row
\* gets date = now.  An event that creates no item is left out once the row
\* of the day exists (it changes no field kept here).
UpdateRealTimeMetrics(items) ==
  /\ argument # <<>>
  /\ LET rows == argument.dailyUsage
         key  == formatDateKey(argument.now, argument.offset)
         at   == {i \in DOMAIN rows : rows[i].key = key}
     IN IF at = {}
        THEN argument' = [argument EXCEPT !.dailyUsage =
               Append(rows, [key |-> key, date |-> argument.now,
                             itemsCreated |-> items])]
        ELSE /\ items > 0
             /\ \A i \in at : rows[i].itemsCreated < MaxItemsPerRow
             /\ argument' = [argument EXCEPT !.dailyUsage =
                  [i \in DOMAIN rows |->
                     IF i \in at
                     THEN [rows[i] EXCEPT !.itemsCreated = @ + items]
                     ELSE rows[i]]]
  /\ result' = <<>>
  /\ UNCHANGED programVars

\* updateUserAnalytics: streakDays: this.calculateCurrentStreak(dailyUsage),
\* on the rows that getDailyUsageRange returned
CalculateCurrentStreak ==
  /\ argument # <<>>
  /\ result = <<>>
  /\ result' = <<[fn |-> "calculateCurrentStreak",
                  streak |-> calculateCurrentStreak(argument.dailyUsage,
                                                    argument.now)]>>
  /\ UNCHANGED <<programVars, argument>>

NextStreak ==
  \/ OpenApp
  \/ ClockAdvances
  \/ \E items \in {0, 1} : UpdateRealTimeMetrics(items)
  \/ CalculateCurrentStreak

SpecStreak == InitReady /\ [][NextStreak]_vars

\* the local calendar day of instant t
LocalDay(t) == t \div DayLength

\* day d has a daily row with itemsCreated > 0
HasActiveRow(d) ==
  \E i \in DOMAIN argument.dailyUsage :
     /\ LocalDay(argument.dailyUsage[i].date) = d
     /\ argument.dailyUsage[i].itemsCreated > 0

\* the largest k such that today, yesterday, ..., today-(k-1) have such a row
ContiguousDays ==
  LET today == LocalDay(argument.now)
      ks == {k \in 0..(MaxClock + 1) :
               \A i \in 0..(k - 1) : HasActiveRow(today - i)}
  IN CHOOSE k \in ks : \A h \in ks : h <= k

\* C19: the streak is contiguous from today: calculateCurrentStreak returns
\* the largest k such that each of the k calendar days today, yesterday, ...,
\* today-(k-1) has a daily row with itemsCreated > 0 (so 0 when today has no
\* such row, 2 for today and yesterday but not the day before).
C19_StreakContiguousFromToday ==
  (result # <<>> /\ result[1].fn = "calculateCurrentStreak")
     => result[1].streak = ContiguousDays

-----------------------------------------------------------------------------
(* Productivity score *)

MaxDays == 8        \* daily rows of one history

\* Scores are kept as whole numbers of sixths of a point, the unit in which
\* (timeSpent / 60) * 10 is a whole number for a whole number of minutes.
ScoreScale == 6

MinOf(a, b) == IF a <= b THEN a ELSE b

\* the body of the for loop of calculateProductivityScore: the score of one
\* day, Math.min(dayScore, 100), in sixths
DayScore(day) ==
  LET contentScore     == MinOf(day.itemsCreated * 10 * ScoreScale, 40 * ScoreScale)
      searchScore      == MinOf(day.searchCount * 2 * ScoreScale, 20 * ScoreScale)
      timeScore        == MinOf(day.timeSpent, 20 * ScoreScale)
      consistencyScore == IF day.itemsCreated > 0 THEN 20 * ScoreScale ELSE 0
  IN MinOf(contentScore + searchScore + timeScore + consistencyScore,
           100 * ScoreScale)

\* dailyUsage.slice(-7)
LastSeven(usage) ==
  IF Len(usage) <= 7 THEN usage ELSE SubSeq(usage, Len(usage) - 6, Len(usage))

\* a calculateProductivityScore that averages over the whole history
calculateProductivityScoreAllDays(usage, contentItems) ==
  IF Len(usage) = 0 THEN 0
  ELSE LET totalScore == SumSeq([i \in DOMAIN usage |-> DayScore(usage[i])])
       IN RoundDiv(totalScore, ScoreScale * Len(usage))

\* AnalyticsCalculationService.calculateProductivityScore(dailyUsage,
\* contentItems); Math.round is RoundDiv (halves go up)
calculateProductivityScore(usage, contentItems) ==
  IF Len(usage) = 0 THEN 0
  ELSE LET recentDays == LastSeven(usage)
           totalScore == SumSeq([i \in DOMAIN recentDays |->
                                   DayScore(recentDays[i])])
       IN RoundDiv(totalScore, ScoreScale * Len(recentDays))

\* the daily rows of the histories: an idle day, a day at every cap, and a
\* day whose score is not a whole number
IdleDay == [itemsCreated |-> 0, searchCount |-> 0, timeSpent |-> 0]
FullDay == [itemsCreated |-> 5, searchCount |-> 10, timeSpent |-> 120]
DayInputs == {IdleDay, FullDay,
              [itemsCreated |-> 1, searchCount |-> 3, timeSpent |-> 45]}

\* a day ends: its row joins the history
RecordDay ==
  /\ Len(argument) < MaxDays
  /\ \E day \in DayInputs : argument' = Append(argument, day)
  /\ result' = <<>>
  /\ UNCHANGED programVars

\* updateUserAnalytics: productivityScore:
\* this.calculationService.calculateProductivityScore(dailyUsage, contentItems)
CalculateProductivityScore ==
  /\ result = <<>>
  /\ result' = <<[fn |-> "calculateProductivityScore",
                  score |-> calculateProductivityScore(argument, <<>>)]>>
  /\ UNCHANGED <<programVars, argument>>

NextProductivity ==
  \/ RecordDay
  \/ CalculateProductivityScore

SpecProductivity == InitReady /\ [][NextProductivity]_vars

\* the score of one day as the specification writes it, in sixths of a point
\* ((timeSpent / 60) * 10 is timeSpent / 6)
DayFormula(day) ==
  MinOf(600,
        MinOf(day.itemsCreated * 60, 240) + MinOf(day.searchCount * 12, 120)
        + MinOf(day.timeSpent, 120)
        + (IF day.itemsCreated > 0 THEN 120 ELSE 0))

\* r is the mean of the day scores of rows, rounded to the nearest whole
\* number: r - 1/2 <= mean < r + 1/2
IsRoundedMean(r, rows) ==
  LET total == SumSeq([i \in DOMAIN rows |-> DayFormula(rows[i])])
      n     == 6 * Len(rows)
  IN n * (2 * r - 1) <= 2 * total /\ 2 * total < n * (2 * r + 1)

\* C20: calculateProductivityScore returns 0 for an empty history; otherwise
\* the rounded mean over the last 7 daily rows of the capped day score; the
\* result lies in 0..100, and a week of rows with itemsCreated = 5,
\* searchCount = 10, timeSpent = 120 gives 100.
C20_ProductivityScore ==
  (result # <<>> /\ result[1].fn = "calculateProductivityScore")
     => LET score == result[1].score
        IN /\ argument = <<>> => score = 0
           /\ argument # <<>> => IsRoundedMean(score, LastSeven(argument))
           /\ score \in 0..100
           /\ (Len(argument) = 7 /\ \A i \in 1..7 : argument[i] = FullDay)
                => score = 100

\* C20 witness: the score of a history of more than 7 rows, whose first row
\* differs from the later ones, has been computed and is not a whole-number
\* mean.
C20_Witness ==
  /\ result # <<>>
  /\ result[1].fn = "calculateProductivityScore"
  /\ Len(argument) = 8
  /\ argument[1] = FullDay
  /\ \A i \in 2..7 : argument[i] = IdleDay
  /\ argument[8] \notin {IdleDay, FullDay}
  /\ result[1].score = 6

-----------------------------------------------------------------------------
(* Trend classification *)

MaxSeries == 3      \* values of one series

\* A percentage is kept as an exact fraction num / den with den > 0.
\* ((current - previous) / previous) * 100, or 0 when previous is 0
PercentChange(current, previous) ==
  IF previous # 0
  THEN IF previous > 0
       THEN [num |-> (current - previous) * 100, den |-> previous]
       ELSE [num |-> (previous - current) * 100, den |-> 0 - previous]
  ELSE [num |-> 0, den |-> 1]

\* change > n, change < n for a whole number n
Above(change, n) == change.num > n * change.den
Below(change, n) == change.num < n * change.den

\* a classification that also calls a change of exactly 5% up or down
TrendOfInclusive(change) ==
  IF ~Below(change, 5) THEN "up"
  ELSE IF ~Above(change, -5) THEN "down"
  ELSE "stable"

\* let trend = 'stable'; if (change > 5) trend = 'up';
\* else if (change < -5) trend = 'down'
TrendOf(change) ==
  IF Above(change, 5) THEN "up"
  ELSE IF Below(change, -5) THEN "down"
  ELSE "stable"

\* calculateTrendData(data, dates)
calculateTrendData(data, dates) ==
  [i \in 1..Len(data) |->
     LET current  == data[i]
         previous == IF i > 1 THEN data[i - 1] ELSE current
         change   == PercentChange(current, previous)
     IN [date |-> dates[i], value |-> current, change |-> change,
         trend |-> TrendOf(change)]]

\* calculateComparison(current, previous)
calculateComparison(current, previous) ==
  LET changePercentage == PercentChange(current, previous)
  IN [current |-> current, previous |-> previous,
      change |-> current - previous,
      changePercentage |-> changePercentage,
      trend |-> TrendOf(changePercentage)]

\* the values of the series: 0, and values 2%, 5% and 10% apart
SeriesInputs == {0, 18, 19, 20, 21, 22, 50, 51}

\* the series grows by one value
AppendValue ==
  /\ Len(argument) < MaxSeries
  /\ \E v \in SeriesInputs : argument' = Append(argument, v)
  /\ result' = <<>>
  /\ UNCHANGED programVars

\* getAnalyticsReport: calculateTrendData over the series
CalculateTrendData ==
  /\ result = <<>>
  /\ result' = <<[fn |-> "calculateTrendData",
                  out |-> calculateTrendData(argument,
                             [i \in 1..Len(argument) |-> i])]>>
  /\ UNCHANGED <<programVars, argument>>

\* calculateComparison of the last value of the series with the one before
CalculateComparison ==
  /\ result = <<>>
  /\ Len(argument) >= 2
  /\ result' = <<[fn |-> "calculateComparison",
                  out |-> calculateComparison(argument[Len(argument)],
                                              argument[Len(argument) - 1])]>>
  /\ UNCHANGED <<programVars, argument>>

NextTrend ==
  \/ AppendValue
  \/ CalculateTrendData
  \/ CalculateComparison

SpecTrend == InitReady /\ [][NextTrend]_vars

\* the change in percent from previous to current is more than n, less than n
\* (previous > 0)
RisesMoreThan(current, previous, n) == (current - previous) * 100 > n * previous
RisesLessThan(current, previous, n) == (current - previous) * 100 < n * previous

\* the trend of a value after a previous one, as the classification reads
ExpectedTrend(current, previous) ==
  IF previous = 0 THEN "stable"
  ELSE IF RisesMoreThan(current, previous, 5) THEN "up"
  ELSE IF RisesLessThan(current, previous, -5) THEN "down"
  ELSE "stable"

\* the entry of a result is right for the pair (current, previous)
EntryAsExpected(change, trend, current, previous) ==
  /\ previous = 0 => change.num = 0
  /\ previous # 0 => change.num * previous = (current - previous) * 100 * change.den
  /\ trend = ExpectedTrend(current, previous)
  /\ (previous = 20 /\ current = 22) => trend = "up"
  /\ (previous = 20 /\ current = 18) => trend = "down"
  /\ (previous = 50 /\ current = 51) => trend = "stable"
  /\ (previous = 20 /\ current \in {19, 21}) => trend = "stable"

\* C21: trend classification: change% is (current-previous)/previous*100, 0
\* when previous is 0 or there is no previous value; the trend is up exactly
\* when change% > 5, down exactly when change% < -5, stable otherwise.
C21_TrendClassification ==
  /\ (result # <<>> /\ result[1].fn = "calculateTrendData")
       => \A i \in DOMAIN result[1].out :
            /\ result[1].out[i].value = argument[i]
            /\ IF i = 1
               THEN /\ result[1].out[i].change.num = 0
                    /\ result[1].out[i].trend = "stable"
               ELSE EntryAsExpected(result[1].out[i].change,
                                    result[1].out[i].trend,
                                    argument[i], argument[i - 1])
  /\ (result # <<>> /\ result[1].fn = "calculateComparison")
       => EntryAsExpected(result[1].out.changePercentage, result[1].out.trend,
                          argument[Len(argument)], argument[Len(argument) - 1])

\* C21 witness: a series with a +5% step and a -10% step has been classified.
C21_Witness ==
  /\ result # <<>>
  /\ result[1].fn = "calculateTrendData"
  /\ argument = <<20, 21, 18>>
  /\ result[1].out[2].trend = "stable"
  /\ result[1].out[3].trend = "down"

-----------------------------------------------------------------------------
(* Weekly rollup *)

\* Instant 0 is the local midnight that starts a Sunday.
DaysPerWeek == 7

\* date.getDay(): the local day of the week, 0 = Sunday
getDay(t) == (t \div DayLength) % DaysPerWeek

\* weekStart.setDate(date.getDate() - date.getDay()): the same local time of
\* day on the Sunday of the week; weekKey is its calendar day in UTC
\* (toISOString().split('T')[0])
weekKeyOf(day, offset) ==
  LET weekStart == day.date - getDay(day.date) * DayLength
  IN formatDateKey(weekStart, offset)

\* the rows of a sequence that lie in the set keep, in order
RECURSIVE Select(_, _)
Select(rows, keep) ==
  IF rows = <<>> THEN <<>>
  ELSE IF Head(rows) \in keep THEN <<Head(rows)>> \o Select(Tail(rows), keep)
  ELSE Select(Tail(rows), keep)

\* calculateWeeklyUsage(dailyUsage) in a time zone: one entry per weekKey;
\* averageDailyUsage is kept as the exact fraction sum / count
calculateWeeklyUsage(usage, offset) ==
  LET keys == {weekKeyOf(usage[i], offset) : i \in DOMAIN usage}
  IN {LET days == Select(usage, {usage[i] : i \in
                           {j \in DOMAIN usage : weekKeyOf(usage[j], offset) = k}})
      IN [weekKey |-> k, days |-> days,
          averageDailyUsage |->
            [num |-> SumSeq([i \in DOMAIN days |-> days[i].itemsCreated]),
             den |-> Len(days)]] : k \in keys}

\* updateUserAnalytics: weeklyUsage: calculateWeeklyUsage(dailyUsage)
CalculateWeeklyUsage ==
  /\ argument # <<>>
  /\ result = <<>>
  /\ result' = <<[fn |-> "calculateWeeklyUsage",
                  out |-> calculateWeeklyUsage(argument.dailyUsage,
                                               argument.offset)]>>
  /\ UNCHANGED <<programVars, argument>>

NextWeekly ==
  \/ OpenApp
  \/ ClockAdvances
  \/ \E items \in {0, 1} : UpdateRealTimeMetrics(items)
  \/ CalculateWeeklyUsage

SpecWeekly == InitReady /\ [][NextWeekly]_vars

\* the local week of instant t, counted from the Sunday at instant 0
LocalWeek(t) == t \div (DaysPerWeek * DayLength)

\* the rows of the local week of row r
RowsOfWeek(r) ==
  {argument.dailyUsage[i] : i \in
     {j \in DOMAIN argument.dailyUsage :
        LocalWeek(argument.dailyUsage[j].date) = LocalWeek(r.date)}}

\* C22: weekly rollup: every daily row lies in the bucket of the Sunday that
\* starts its week, that is, in one bucket with exactly the rows of its week,
\* and the bucket's averageDailyUsage is the sum of itemsCreated over those
\* rows divided by their number.
C22_WeeklyRollup ==
  (result # <<>> /\ result[1].fn = "calculateWeeklyUsage")
     => \A i \in DOMAIN argument.dailyUsage :
          \E b \in result[1].out :
             /\ {b.days[j] : j \in DOMAIN b.days}
                  = RowsOfWeek(argument.dailyUsage[i])
             /\ b.averageDailyUsage.den
                  = Cardinality(RowsOfWeek(argument.dailyUsage[i]))

-----------------------------------------------------------------------------
(* Daily row: counters per event type *)

\* the counters of row are those of base after event ev, by the mapping table
\* (recordingMinutes is compared in seconds: += duration / 60)
CountersAsMapped(base, row, ev) ==
  LET isVoice  == ev.type = "voice_recording_completed"
      isUpload == ev.type = "file_upload_completed"
      isSearch == ev.type = "search_performed"
      isDelete == ev.type = "item_deleted"
  IN /\ row.recordingMinutes * 60
          = base.recordingMinutes * 60 + (IF isVoice THEN ev.duration ELSE 0)
     /\ row.itemsCreated
          = base.itemsCreated + (IF isVoice \/ isUpload THEN 1 ELSE 0)
     /\ row.documentsProcessed
          = base.documentsProcessed + (IF isUpload THEN 1 ELSE 0)
     /\ row.searchCount = base.searchCount + (IF isSearch THEN 1 ELSE 0)
     /\ row.itemsDeleted = base.itemsDeleted + (IF isDelete THEN 1 ELSE 0)

\* the flush in slot k reads today's row and applies its current event
AppliesEvent(k) ==
  flushes[k].pc = "rowRead" /\ flushes'[k].pc = "rowWrite"

\* C23: per-type counter mapping: when an event is applied to today's row (the
\* stored row, or an empty one if none could be read), the counters change
\* exactly as the mapping table says, and not at all for other event types.
C23_CountersAsMapped ==
  [][\A k \in 1..MaxFlushes :
       AppliesEvent(k)
       => \E base \in {ReadTodayUsage(TRUE), createEmptyDailyUsage} :
             CountersAsMapped(base, flushes'[k].row,
                              flushes[k].batch[flushes[k].i])]_vars

-----------------------------------------------------------------------------
(* Daily row: time spent and quick score *)

\* AnalyticsCollectionService.calculateQuickProductivityScore(dailyUsage):
\* Math.min(Math.round(score), 100), the sum being taken in sixths
calculateQuickProductivityScore(usage) ==
  LET score ==
          MinOf(usage.itemsCreated * 10 * ScoreScale, 40 * ScoreScale)
        + MinOf(usage.searchCount * 2 * ScoreScale, 20 * ScoreScale)
        + MinOf(usage.timeSpent, 20 * ScoreScale)
        + (IF usage.itemsCreated > 0 THEN 20 * ScoreScale ELSE 0)
  IN MinOf(RoundDiv(score, ScoreScale), 100)

MatchedTypes == {"voice_recording_completed", "file_upload_completed",
                 "search_performed", "item_deleted"}

\* C24: after a matched event has been applied, today's row has timeSpent
\* increased by duration/60 (compared in seconds) and productivityScore equal
\* to the quick formula applied to the updated row.
C24_TimeSpentAndQuickScore ==
  [][\A k \in 1..MaxFlushes :
       (AppliesEvent(k) /\ flushes[k].batch[flushes[k].i].type \in MatchedTypes)
       => /\ \E base \in {ReadTodayUsage(TRUE), createEmptyDailyUsage} :
               flushes'[k].row.timeSpent * 60
                 = base.timeSpent * 60 + flushes[k].batch[flushes[k].i].duration
          /\ flushes'[k].row.productivityScore
               = calculateQuickProductivityScore(flushes'[k].row)]_vars

-----------------------------------------------------------------------------
(* Daily rows of several dates *)

\* the events applied to the daily rows: one that creates an item, a search,
\* and one of a type outside the switch
RowEventInputs ==
  {[type |-> "voice_recording_completed", duration |-> 120],
   [type |-> "search_performed", duration |-> 0],
   [type |-> "item_viewed", duration |-> 0]}

\* number of events that a daily row counts
Counted(usage) == usage.itemsCreated + usage.searchCount + usage.itemsDeleted

\* getDailyUsage(today) on the rows of the store: db.analytics.get of the
\* record 'daily_usage_<dateKey>', null when there is none or the read fails
getDailyUsage(rows, key, ok) ==
  LET at == {i \in DOMAIN rows : rows[i].key = key}
  IN IF ok /\ at # {} THEN <<rows[CHOOSE i \in at : TRUE]>> ELSE <<>>

\* a saveDailyUsage that adds a record on every call
saveDailyUsageAdd(rows, key, row) == Append(rows, row)

\* saveDailyUsage(today, usage): db.analytics.put replaces the record with the
\* same id, or adds one
saveDailyUsage(rows, key, row) ==
  IF \E i \in DOMAIN rows : rows[i].key = key
  THEN [i \in DOMAIN rows |-> IF rows[i].key = key THEN row ELSE rows[i]]
  ELSE Append(rows, row)

\* StorageService.updateRealTimeMetrics(event) at instant now: today's row is
\* read or created empty (date = now), the switch is applied, the row saved;
\* a failed save is caught and leaves the store as it was
TrackEventOnDate(ev) ==
  /\ argument # <<>>
  /\ LET rows == argument.dailyUsage
         key  == formatDateKey(argument.now, argument.offset)
     IN \E readOk, saveOk \in BOOLEAN :
          /\ readOk \/ saveOk
          /\ Inject(readOk /\ saveOk)
          /\ LET found == getDailyUsage(rows, key, readOk)
                 todayUsage ==
                   IF found # <<>> THEN found[1]
                   ELSE [key |-> key, date |-> argument.now,
                         usage |-> createEmptyDailyUsage]
                 updated == [todayUsage EXCEPT
                               !.usage = ApplyEventToRow(@, ev)]
             IN /\ Counted(updated.usage) <= MaxItemsPerRow
                /\ argument' = [argument EXCEPT !.dailyUsage =
                     IF saveOk THEN saveDailyUsage(rows, key, updated)
                     ELSE rows]
  /\ result' = <<>>
  /\ UNCHANGED <<collectorVars, initialized, storeVars, gamVars, recomputes,
                 starts, sessionVars>>

NextDailyRows ==
  \/ OpenApp
  \/ ClockAdvances
  \/ \E ev \in RowEventInputs : TrackEventOnDate(ev)

SpecDailyRows == InitReady /\ [][NextDailyRows]_vars

\* the rows of the store that carry date key k
RowsOfDate(rows, k) == {i \in DOMAIN rows : rows[i].key = k}

\* every numeric field of a daily row is >= 0
FieldsNonNegative(usage) ==
  /\ usage.recordingMinutes >= 0 /\ usage.documentsProcessed >= 0
  /\ usage.searchCount >= 0      /\ usage.timeSpent >= 0
  /\ usage.sessionsCount >= 0    /\ usage.itemsCreated >= 0
  /\ usage.itemsDeleted >= 0     /\ usage.productivityScore >= 0

-----------------------------------------------------------------------------
(* Goals: goal-count achievements *)

CompletedGoals == {g \in GoalIds : goals[g].status = "completed"}

\* the GamificationService.updateGoalProgress call in slot c returns in this
\* step, having completed its goal, with no store operation failed so far
CompletingCallReturns(c) ==
  /\ calls[c].op = "gam"
  /\ calls[c].completing
  /\ calls'[c].op = "none"
  /\ goals'[calls[c].goalId].status = "completed"
  /\ failures' = 0

\* C26: goal-count achievements: when the updateGoalProgress call that
\* completes the user's first goal returns, 'first_goal' is unlocked.
C26_FirstGoalUnlocked ==
  [][\A c \in 1..MaxCalls :
       (CompletingCallReturns(c) /\ CompletedGoals' = {calls[c].goalId})
       => InsightId("first_goal") \in insights']_vars

-----------------------------------------------------------------------------
(* Goals: XP of a completion *)

MaxTarget == 25     \* largest goal target

Priorities == {"high", "medium", "low"}

\* a goal is created with a target and a priority
ChooseGoal ==
  /\ \E target \in 1..MaxTarget, priority \in Priorities :
       /\ argument # [target |-> target, priority |-> priority]
       /\ argument' = [target |-> target, priority |-> priority]
  /\ result' = <<>>
  /\ UNCHANGED programVars

\* updateGoalProgress completes the goal:
\* const xpReward = this.calculateGoalXP(goal)
CalculateGoalXP ==
  /\ argument # <<>>
  /\ result = <<>>
  /\ result' = <<[fn |-> "calculateGoalXP", xp |-> calculateGoalXP(argument)]>>
  /\ UNCHANGED <<programVars, argument>>

NextGoalXP ==
  \/ ChooseGoal
  \/ CalculateGoalXP

SpecGoalXP == InitReady /\ [][NextGoalXP]_vars

\* 100 * max(1, target/10) * m for whole targets: 100 m up to target 10,
\* 10 * target * m beyond; m is 1.5, 1.2 or 1, so the value is whole
ExpectedGoalXP(target, priority) ==
  LET base == IF target <= 10 THEN 100 ELSE 10 * target
  IN CASE priority = "high"   -> base + base \div 2
       [] priority = "medium" -> base + base \div 5
       [] priority = "low"    -> base

\* C27: goal completion XP: the XP that updateGoalProgress computes for a
\* goal it completes is 100 * max(1, target/10) * m rounded, with m = 1.5 for
\* high, 1.2 for medium and 1 for low priority.
C27_GoalCompletionXP ==
  (result # <<>> /\ result[1].fn = "calculateGoalXP")
     => result[1].xp = ExpectedGoalXP(argument.target, argument.priority)

\* C27 witness: the XP of a medium-priority goal with a target above 10 has
\* been computed.
C27_Witness ==
  /\ result # <<>>
  /\ result[1].fn = "calculateGoalXP"
  /\ argument = [target |-> 25, priority |-> "medium"]
  /\ result[1].xp = 300

-----------------------------------------------------------------------------
(* Daily row: interleaved appends *)

\* number of events of type t in the events table
StoredOfType(t) == Cardinality({j \in DOMAIN events : events[j].type = t})

\* C28: today's row counts every stored event: whenever no append is in
\* progress (and no store operation has failed), today's searchCount,
\* itemsCreated, documentsProcessed and itemsDeleted equal the numbers of
\* matching events in the store.
C28_RowCountsStoredEvents ==
  (FlushesIdle /\ failures = 0)
     => LET row == ReadTodayUsage(TRUE)
        IN /\ row.searchCount = StoredOfType("search_performed")
           /\ row.itemsCreated = StoredOfType("voice_recording_completed")
                                 + StoredOfType("file_upload_completed")
           /\ row.documentsProcessed = StoredOfType("file_upload_completed")
           /\ row.itemsDeleted = StoredOfType("item_deleted")

-----------------------------------------------------------------------------
(* Goals: goal_completed events *)

\* the goal_completed events of goal g in the events table
GoalCompletedEvents(g) ==
  {j \in DOMAIN events :
     events[j].type = "goal_completed" /\ events[j].goalId = g}

\* C29: one goal_completed event per completion: once the only
\* updateGoalProgress call of a behaviour has returned, with no store
\* operation failed, a goal it moved from active to completed has exactly one
\* goal_completed event in the store.
C29_OneEventPerCompletion ==
  (starts = 1 /\ failures = 0 /\ \A c \in 1..MaxCalls : calls[c].pc = "idle")
     => \A g \in GoalIds :
          (goals[g].createdAs = "active" /\ goals[g].status = "completed")
          => Cardinality(GoalCompletedEvents(g)) = 1

-----------------------------------------------------------------------------
(* Snapshot: awarded XP *)

\* C30: awarded XP is never lost: over any interleaving of awardXP calls and
\* snapshot recomputations, once awardXP has stored the awarded XP in the
\* snapshot, no step (of a behaviour without store failures) lowers the xp
\* field of the stored snapshot.
C30_StoredXpNeverDecreases ==
  [][(/\ snapshot # <<>> /\ snapshot' # <<>>
      /\ userXP > 0 /\ snapshot[1].xp = userXP
      /\ failures' = 0)
       => snapshot'[1].xp >= snapshot[1].xp]_vars

====
